---- MODULE Spec2Model ----
(***************************************************************************)
(* A model of costa-vscode's OAuth2 client (OAuth2Client, the first class  *)
(* of src/unnamed/part_006) and of its usage feed in both variants: the    *)
(* polling UsageStream (src/src/usageStream.ts) and the server-sent-events *)
(* UsageStream (src/unnamed/part_002), whose text is modelled as a         *)
(* sequence of symbols so that splitting and parsing are computed.         *)
(*                                                                         *)
(* The code is asynchronous JavaScript.  One action of the model is the    *)
(* synchronous run of a handler between two awaits on I/O; an await on the *)
(* secret store, the HTTP endpoint or the browser is a point at which any  *)
(* other task may run.  A request to the secret store takes effect when it *)
(* is issued (requests are served in the order issued) and its answer is   *)
(* delivered later, so a value read from the store may be stale when the   *)
(* reader resumes.  globalState (a Memento) is read and written in memory. *)
(* commands.registerCommand throws when the command id is already          *)
(* registered (the documented behaviour of the host).                      *)
(***************************************************************************)
EXTENDS Integers, FiniteSets, Sequences, TLC

\* ------------------------------------------------------------- bounds

\* The token endpoint issues credentials numbered up to this (the stored one is 1).
MaxIssued == 2

\* The callers make at most this many calls of public methods in one behaviour.
MaxCalls == 2

\* login() generates at most this many verifier/state pairs in one behaviour.
MaxNonce == 2

\* The 1 s timers of the 401/403 path that may be pending at once.
MaxSoft == 1

\* The symbols of an unterminated block that fetchStream() may hold in `buf`.
MaxBuf == 4

\* The blocks of a stream whose delivery is followed read by read.
MaxBlocks == 2

\* The instants (epoch seconds) at which the clock is sampled.
Instants == {1000, 1150}

\* expires_in of a token response.
Lifetimes == {400}

\* The tasks that call the client's public methods.
Callers == {"c1", "c2"}

\* Invocations of the 'costa.handleOAuthCallback' command handler.
Callbacks == {"cb1", "cb2"}

\* The startup load started by setContext.
Boot == "boot"

\* The bodies of UsageStream that may be suspended: the one connect() in flight
\* and a fetchUsageData() started by the polling interval.
StreamTasks == {"conn", "poll"}

Tasks == Callers \cup Callbacks \cup {Boot} \cup StreamTasks

\* ------------------------------------------------------------- data

\* `this.token.expires_at - 300`
Margin == 300

\* null / undefined: no credential.  access = 0 is "no access token",
\* expires_at = 0 is an absent (falsy) expires_at.
NoCred == [access |-> 0, refresh |-> FALSE, expires_at |-> 0]

Cred(a, r, e) == [access |-> a, refresh |-> r, expires_at |-> e]

\* What the secret store may hold when the extension starts: nothing, or a
\* credential saved by an earlier session: without expires_at, within the
\* margin at the start (and past its expiry later), exactly at the margin, or
\* beyond it; or one saved
\* from a token response that had no access_token.
StoredAtStart ==
    {NoCred, Cred(0, FALSE, 1400)}
        \cup { Cred(1, r, e) : r \in BOOLEAN, e \in {0, 1100, 1300, 1400} }

NoState == 0
NoVerifier == 0
\* query.get('state') of a redirect without a state parameter
AbsentState == -1

\* The expiry check with the clock left in milliseconds.
ExpiredMillis(cred, t) == cred.expires_at # 0 /\ t * 1000 > cred.expires_at - Margin

\* `this.token.expires_at && Date.now() / 1000 > this.token.expires_at - 300`
Expired(cred, t) == cred.expires_at # 0 /\ t > cred.expires_at - Margin

\* An isLoggedIn() that tests the credential and not its access token.
LoggedInAnyCredential(tok) == tok # NoCred

\* `!!this.token?.access_token`
LoggedIn(tok) == tok.access # 0

VARIABLES
    context,        \* this.context is set
    token,          \* this.token
    secret,         \* secrets 'costa.oauth2.token'
    gstate,         \* globalState 'costa.oauth2.state'
    codeVerifier,   \* this.codeVerifier
    pendingLogin,   \* this.pendingLogin: the login call whose promise it resolves
    handlerReg,     \* 'costa.handleOAuthCallback' is registered
    issued,         \* the number of the last credential the token endpoint issued
    nonce,          \* verifier/state pairs generated so far
    now,            \* the clock, epoch seconds
    pc,             \* where each task is suspended
    op,             \* the OAuth2Client method each task is running
    loc,            \* a task's local credential (storedToken)
    ret,            \* history: each task's current or last call
    hist,           \* history of the client as a whole
    us              \* the UsageStream instance

vars == <<context, token, secret, gstate, codeVerifier, pendingLogin, handlerReg,
          issued, nonce, now, pc, op, loc, ret, hist, us>>

\* ------------------------------------------------------------- history

\* The record of one call: what it decided on, what it did and what it returned.
\*   basis, at   the credential whose expiry the call examined, and the clock then
\*               (of a handler or logout(): this.token when it began)
\*   fresh       the credential built from the refresh response
\*   reqs        refresh requests the call sent to the token endpoint
\*   writes      writes and deletes of the stored credential the call issued
\*   solo        no other task was running at any time during the call, and none
\*               has begun a call since (of a handler: no task other than the
\*               login() calls awaiting the redirect)
\*   early       the call started before any refresh response of this burst
\*   lazy        the call loaded the credential from the store
\*   verifier    the verifier login() generated; the one the handler sent
\*   rstate, sstate   the state a redirect carried and the persisted state then
\*               (of logout(): the persisted state when it began)
\*   pending     this.pendingLogin when the handler resolved it
\*   reqs        of a handler: token-exchange requests sent
NoRet ==
    [op |-> "none", done |-> FALSE, val |-> 0, path |-> "none", basis |-> NoCred,
     at |-> 0, fresh |-> NoCred, reqs |-> 0, writes |-> 0, solo |-> FALSE,
     early |-> FALSE, lazy |-> FALSE, verifier |-> NoVerifier, rstate |-> NoState,
     sstate |-> NoState, pending |-> "none"]

\* No task is running: the next call starts a new burst of overlapping calls.
Quiet == \A u \in Tasks : pc[u] = "idle"

\* The histories when task t starts method o.
Begun(t, o) ==
    [u \in Tasks |->
        IF u = t
        THEN [NoRet EXCEPT !.op = o, !.solo = Quiet,
                           !.early = (Quiet \/ ~hist.responded)]
        ELSE IF Quiet THEN NoRet
        ELSE [ret[u] EXCEPT !.solo = FALSE]]

\* hist.responded: a refresh response arrived in this burst.
\* hist.opens: browser-open calls since a login attempt last ended.
\* hist.calls: calls of public methods the callers made.
\* hist.exchanged: the states of the redirects for which the handler sent a
\*   token-exchange request; hist.twice: it sent one for a state again.
HistInit ==
    [responded |-> FALSE, opens |-> 0, calls |-> 0, exchanged |-> {}, twice |-> FALSE]

HistBegun(t) ==
    [hist EXCEPT !.responded = IF Quiet THEN FALSE ELSE @,
                 !.calls = IF t \in Callers THEN @ + 1 ELSE @]

\* A caller may make another call.  The callers are interchangeable, and so are
\* the handler invocations: the second one is used only while the first is busy.
MayCall(t) ==
    /\ t \in Callers => hist.calls < MaxCalls
    /\ t = "c2" => pc["c1"] # "idle"
    /\ t = "cb2" => pc["cb1"] # "idle"

\* ------------------------------------------------------------- UsageStream, its synchronous parts

\* A scheduleReconnect() that sets its timer without clearing the one held.
ScheduleReconnectKeepsTimer(s, old) ==
    [s EXCEPT !.reconnectTimeout = "armed", !.backoffOld = old, !.dup = FALSE,
              !.liveTimeouts = @ + 1]

\* scheduleReconnect(): clearTimeout of the handle held, then a new 5 s timer.
\* `old`: the call comes from a timer that was pending when disconnect() ran.
\* clearTimeout cancels the timer the handle refers to if it is still pending
\* ("armed") and does nothing for the handle of a timer that has fired.
ScheduleReconnect(s, old) ==
    [s EXCEPT !.reconnectTimeout = "armed", !.backoffOld = old, !.dup = FALSE,
              !.liveTimeouts = (IF s.reconnectTimeout = "armed" THEN @ - 1 ELSE @) + 1]

\* setupPolling(): clearInterval of the handle held, then a new 30 s interval.
SetupPolling(s) ==
    [s EXCEPT !.pollInterval = TRUE,
              !.liveIntervals = (IF s.pollInterval THEN @ - 1 ELSE @) + 1]

\* `setTimeout(() => this.scheduleReconnect(), 1000)`: a timer no field refers to.
AddSoftTimer(s) ==
    [s EXCEPT !.softNew = IF s.softNew + s.softOld < MaxSoft THEN @ + 1 ELSE @]

\* fetchUsageData() returns normally to its caller.
\* connect(): setupPolling(), then `finally`.  The interval callback: nothing.
\* connect() of the SSE variant, after fetchStream(): `finally` alone.
Returned(t, s) ==
    IF t = "conn"
    THEN IF s.transport = "sse"
         THEN [s EXCEPT !.isConnecting = FALSE, !.at[t] = "idle", !.skipped = FALSE,
                        !.cut = FALSE]
         ELSE [SetupPolling(s) EXCEPT !.isConnecting = FALSE, !.at[t] = "idle",
                                      !.skipped = FALSE, !.cut = FALSE]
    ELSE [s EXCEPT !.at[t] = "idle"]

\* A connect() whose catch block schedules no reconnect.
ThrownNoReconnect(t, s, authFailure) ==
    IF t = "conn"
    THEN [s EXCEPT !.isConnecting = FALSE, !.at[t] = "idle", !.fetch[t].threw = TRUE,
                   !.skipped = FALSE, !.cut = FALSE]
    ELSE IF authFailure
    THEN [ScheduleReconnect(s, FALSE) EXCEPT !.at[t] = "idle", !.fetch[t].threw = TRUE]
    ELSE [s EXCEPT !.at[t] = "idle", !.fetch[t].threw = TRUE]

\* fetchUsageData() throws.  connect(): scheduleReconnect(), then `finally`.
\* The interval callback: scheduleReconnect() if the message holds 401 or 403.
Thrown(t, s, authFailure) ==
    IF t = "conn"
    THEN [ScheduleReconnect(s, FALSE) EXCEPT !.isConnecting = FALSE, !.at[t] = "idle",
                                             !.fetch[t].threw = TRUE,
                                             !.cut = FALSE,
                                             !.skipped = FALSE]
    ELSE IF authFailure
    THEN [ScheduleReconnect(s, FALSE) EXCEPT !.at[t] = "idle", !.fetch[t].threw = TRUE]
    ELSE [s EXCEPT !.at[t] = "idle", !.fetch[t].threw = TRUE]

\* A fetchUsageData() that sends the feed request whatever getAccessToken()
\* returned.
ResumeWithoutTokenCheck(t, val, s) ==
    IF s.at[t] = "token"
    THEN [s EXCEPT !.at[t] = "feed", !.fetch[t].feeds = @ + 1,
                   !.fetch[t].noToken = (val = 0)]
    ELSE IF val # 0
         THEN Returned(t, [AddSoftTimer(s) EXCEPT !.fetch[t].soft = @ + 1,
                                                  !.fetch[t].newToken = TRUE])
         ELSE Thrown(t, ScheduleReconnect(ScheduleReconnect(s, FALSE), FALSE), TRUE)

\* fetchUsageData() resumes with `val`, the result of the OAuth2Client call it
\* awaited: after getAccessToken() it sends the feed request or throws; after
\* forceRefreshToken() it sets the 1 s timer and returns, or schedules the
\* reconnect (in the else branch and again in the catch) and throws.
Resume(t, val, s) ==
    IF s.at[t] = "token"
    THEN IF val = 0
         THEN Thrown(t, [s EXCEPT !.fetch[t].noToken = TRUE], FALSE)
         ELSE [s EXCEPT !.at[t] = "feed", !.fetch[t].feeds = @ + 1]
    ELSE IF val # 0
         THEN Returned(t, [AddSoftTimer(s) EXCEPT !.fetch[t].soft = @ + 1,
                                                  !.fetch[t].newToken = TRUE])
         ELSE Thrown(t, ScheduleReconnect(ScheduleReconnect(s, FALSE), FALSE), TRUE)

\* The instance after construction.
\*   transport         which variant of the class this is
\*   isConnecting      this.isConnecting
\*   pollInterval      this.pollInterval refers to a running interval
\*   reconnectTimeout  this.reconnectTimeout: null, a pending timer ("armed"), or
\*                     the handle of a timer that has fired ("fired")
\*   at                where each fetchUsageData() is suspended
\*   softNew, softOld  pending 1 s timers set after / before the last disconnect()
\*   liveIntervals     the 30 s intervals of this instance that are running
\*   liveTimeouts      the 5 s timers of this instance that are pending
\* and its history:
\*   disconnected      disconnect() ran and connect() was not called since
\*   backoffOld        the pending 5 s timer was set by a 1 s timer that was
\*                     pending when disconnect() ran
\*   late              the 5 s timer that fired last, with no connect() or
\*                     disconnect() call since, was such a timer and called
\*                     connect() while disconnected
\*   dup               connect() started an attempt while the 5 s timer now
\*                     pending was pending
\*   second            the 5 s timer that fired last, with no connect() or
\*                     disconnect() call since, was such a timer and started
\*                     an attempt of its own
\*   fetch             of each fetchUsageData(), the current or the last one:
\*                     feed requests sent, 401/403 responses received,
\*                     forceRefreshToken() calls made, 1 s timers set, and
\*                     whether forceRefreshToken() returned a token, and
\*                     whether the fetch ended by throwing, and whether
\*                     getAccessToken() returned null to it; of the SSE
\*                     variant, whether the source ended the stream
\*   cut               disconnect() ran while the connect() now in flight was
\*                     in flight, and connect() was not called since
\*   retry             flips each time a 5 s timer starts an attempt
\*   skipped           a connect() call returned at the isConnecting guard
\*                     during the attempt now in flight
NoFetch ==
    [feeds |-> 0, unauth |-> 0, forced |-> 0, soft |-> 0, newToken |-> FALSE,
     threw |-> FALSE, noToken |-> FALSE, ended |-> FALSE]

UsageStreamInit ==
    [transport |-> "poll", isConnecting |-> FALSE, pollInterval |-> FALSE, reconnectTimeout |-> "null",
     at |-> [t \in StreamTasks |-> "idle"], softNew |-> 0, softOld |-> 0,
     liveIntervals |-> 0, liveTimeouts |-> 0,
     fetch |-> [t \in StreamTasks |-> NoFetch],
     disconnected |-> FALSE, backoffOld |-> FALSE, late |-> FALSE,
     dup |-> FALSE, second |-> FALSE, skipped |-> FALSE, retry |-> FALSE,
     cut |-> FALSE]

\* ------------------------------------------------------------- UsageStream (SSE variant), text and parsing

\* The text of the event stream is a sequence of symbols: the line feed, the
\* line prefix `data:`, the line `event: <name>`, a comment line, and the
\* tokens of a JSON text.  A member is `"key":literal`; a literal is a number,
\* a string or null, kept with its lexeme.
Sym(s) == [s |-> s, key |-> "", t |-> "", lex |-> ""]
NL == Sym("nl")
DataPrefix == Sym("data:")
EventKeepalive == Sym("event: keepalive")
EventUsage == Sym("event: usage")
CommentLine == Sym(": comment")
LBrace == Sym("{")
RBrace == Sym("}")
Comma == Sym(",")
Member(k, t, lex) == [s |-> "member", key |-> k, t |-> t, lex |-> lex]
Literal(t, lex) == [s |-> "lit", key |-> "", t |-> t, lex |-> lex]

\* `text.split(sep)` for a separator of one line feed (width 1) or two (width 2).
RECURSIVE SplitAt(_, _, _, _)
SplitAt(text, width, i, cur) ==
    IF i > Len(text) THEN <<cur>>
    ELSE IF /\ text[i] = NL
            /\ width = 2 => (i + 1 <= Len(text) /\ text[i + 1] = NL)
         THEN <<cur>> \o SplitAt(text, width, i + width, <<>>)
         ELSE SplitAt(text, width, i + 1, Append(cur, text[i]))

Split(text, width) == SplitAt(text, width, 1, <<>>)

\* `.filter(l => l.startsWith('data:')).map(l => l.slice(5).trim())`
DataLines(chunk) ==
    LET lines == Split(chunk, 1)
        data == SelectSeq(lines, LAMBDA l : Len(l) > 0 /\ l[1] = DataPrefix)
    IN  [i \in DOMAIN data |-> Tail(data[i])]

\* `.join('\n')`: the payloads, a line feed between two of them being white
\* space of the JSON text.
RECURSIVE Join(_)
Join(payloads) ==
    IF payloads = <<>> THEN <<>> ELSE Head(payloads) \o Join(Tail(payloads))

\* The joined string is '' (falsy): no data line, or one with nothing after `data:`.
EmptyEventData(payloads) ==
    \/ Len(payloads) = 0
    \/ Len(payloads) = 1 /\ payloads[1] = <<>>

\* JSON.parse: a lone literal, or `{` members separated by commas `}`; of two
\* members with one key the later one wins.  Anything else is a SyntaxError.
NoObject == [k \in {} |-> [t |-> "", lex |-> ""]]

JSONParse(toks) ==
    LET n == Len(toks)
        inner == SubSeq(toks, 2, n - 1)
        m == Len(inner)
        grammatical ==
            /\ n >= 2 /\ toks[1] = LBrace /\ toks[n] = RBrace
            /\ m = 0 \/ m % 2 = 1
            /\ \A i \in 1 .. m :
                  inner[i].s = IF i % 2 = 1 THEN "member" ELSE ","
        keys == {inner[i].key : i \in {j \in 1 .. m : j % 2 = 1}}
        last(k) == CHOOSE j \in 1 .. m :
                      /\ inner[j].s = "member" /\ inner[j].key = k
                      /\ \A i \in (j + 1) .. m : inner[i].key # k
    IN  IF n = 1 /\ toks[1].s = "lit"
        THEN [kind |-> IF toks[1].t = "null" THEN "null" ELSE "primitive",
              obj |-> NoObject]
        ELSE IF grammatical
        THEN [kind |-> "object",
              obj |-> [k \in keys |-> [t |-> inner[last(k)].t,
                                       lex |-> inner[last(k)].lex]]]
        ELSE [kind |-> "error", obj |-> NoObject]

UsageFields == {"points", "total_points", "context_length"}

\* A parseSSE(data) that emits whatever it parsed.
ParseSSEEmitsAll(chunk) ==
    IF \E i \in DOMAIN chunk : chunk[i] = EventKeepalive
    THEN [path |-> "keepalive", emitted |-> FALSE, payload |-> NoObject]
    ELSE LET payloads == DataLines(chunk)
             parsed == JSONParse(Join(payloads))
         IN  IF EmptyEventData(payloads)
             THEN [path |-> "empty", emitted |-> FALSE, payload |-> NoObject]
             ELSE IF parsed.kind \in {"error", "null"}
             THEN [path |-> "caught", emitted |-> FALSE, payload |-> NoObject]
             ELSE [path |-> "emit", emitted |-> TRUE, payload |-> parsed.obj]

\* parseSSE(data): what it does with one block of the stream.  A keepalive
\* event returns at once; absent data is logged; a JSON.parse error, and the
\* TypeError of reading a property of null, are caught and logged; a message
\* with `ping` and without `points` returns; the parsed value is emitted when
\* one of the three fields is defined.
ParseSSE(chunk) ==
    IF \E i \in DOMAIN chunk : chunk[i] = EventKeepalive
    THEN [path |-> "keepalive", emitted |-> FALSE, payload |-> NoObject]
    ELSE LET payloads == DataLines(chunk)
             parsed == JSONParse(Join(payloads))
             has(k) == k \in DOMAIN parsed.obj
         IN  IF EmptyEventData(payloads)
             THEN [path |-> "empty", emitted |-> FALSE, payload |-> NoObject]
             ELSE IF parsed.kind \in {"error", "null"}
             THEN [path |-> "caught", emitted |-> FALSE, payload |-> NoObject]
             ELSE IF has("ping") /\ ~has("points")
             THEN [path |-> "ping", emitted |-> FALSE, payload |-> NoObject]
             ELSE IF \E k \in UsageFields : has(k)
             THEN [path |-> "emit", emitted |-> TRUE, payload |-> parsed.obj]
             ELSE [path |-> "nofields", emitted |-> FALSE, payload |-> NoObject]

\* fetchUsageData() of the polling variant after a 2xx: `await res.json()`, then
\* the same test on the three fields.  A body that does not parse, and null,
\* make it throw.
ParseBody(toks) ==
    LET parsed == JSONParse(toks)
    IN  IF parsed.kind \in {"error", "null"}
        THEN [path |-> "thrown", emitted |-> FALSE, payload |-> NoObject]
        ELSE IF \E k \in UsageFields : k \in DOMAIN parsed.obj
        THEN [path |-> "emit", emitted |-> TRUE, payload |-> parsed.obj]
        ELSE [path |-> "nofields", emitted |-> FALSE, payload |-> NoObject]

\* ------------------------------------------------------------- OAuth2Client

Init ==
    /\ context = FALSE
    /\ token = NoCred
    /\ secret \in StoredAtStart
    /\ gstate = NoState
    /\ codeVerifier = NoVerifier
    /\ pendingLogin = "none"
    /\ handlerReg = FALSE
    /\ issued = 1
    /\ nonce = 0
    /\ now = 1000
    /\ pc = [t \in Tasks |-> "idle"]
    /\ op = [t \in Tasks |-> "none"]
    /\ loc = [t \in Tasks |-> NoCred]
    /\ ret = [t \in Tasks |-> NoRet]
    /\ hist = HistInit
    /\ us = UsageStreamInit

\* The call returns `val` to its caller.  A UsageStream task resumes at once
\* with the value, what it does with it is recorded in us.fetch, and the record
\* of the call is dropped.
Finish(t, R, s, val) ==
    /\ pc' = [pc EXCEPT ![t] = "idle"]
    /\ ret' = [R EXCEPT ![t] = IF t \in StreamTasks THEN NoRet
                               ELSE [R[t] EXCEPT !.done = TRUE, !.val = val]]
    /\ us' = IF t \in StreamTasks THEN Resume(t, val, s) ELSE s

\* The call suspends at `label`.
Goto(t, R, s, label) ==
    /\ pc' = [pc EXCEPT ![t] = label]
    /\ ret' = R
    /\ us' = s

OnPath(R, t, p) == [R EXCEPT ![t].path = p]

\* A clearToken() that leaves the stored credential in place.
BeginClearKeepsSecret(t, R, s) ==
    /\ secret' = secret
    /\ Goto(t, R, s, IF context THEN "clear1" ELSE "clear2")

\* clearToken() up to its first await: secrets.delete is issued.
BeginClear(t, R, s) ==
    IF context
    THEN /\ secret' = NoCred
         /\ Goto(t, [R EXCEPT ![t].writes = @ + 1], s, "clear1")
    ELSE /\ secret' = secret
         /\ Goto(t, R, s, "clear2")

\* refreshTokenIfNeeded() up to its first await.
RefreshTokenIfNeeded(t, R, s, tok) ==
    IF tok.refresh
    THEN /\ secret' = secret
         /\ Goto(t, [R EXCEPT ![t].reqs = @ + 1], s, "fetch")
    ELSE BeginClear(t, OnPath(R, t, "norefresh"), s)

\* getAccessToken() from `if (!this.token) return null` on, this.token being tok.
Decide(t, R, s, tok) ==
    IF tok = NoCred
    THEN /\ secret' = secret
         /\ Finish(t, OnPath(R, t, "nocred"), s, 0)
    ELSE LET R1 == [R EXCEPT ![t].basis = tok, ![t].at = now]
         IN  IF Expired(tok, now)
             THEN RefreshTokenIfNeeded(t, R1, s, tok)
             ELSE /\ secret' = secret
                  /\ Finish(t, OnPath(R1, t, "valid"), s, tok.access)

\* getAccessToken() up to its first await on I/O; `s` is the stream as its caller
\* leaves it.  Without a context loadToken() returns null without I/O.
GetAccessTokenCall(t, s) ==
    /\ pc[t] = "idle"
    /\ MayCall(t)
    /\ op' = [op EXCEPT ![t] = "getAccessToken"]
    /\ hist' = HistBegun(t)
    /\ token' = token
    /\ IF token = NoCred /\ context
       THEN /\ loc' = [loc EXCEPT ![t] = secret]
            /\ secret' = secret
            /\ Goto(t, Begun(t, "getAccessToken"), s, "load")
       ELSE /\ loc' = loc
            /\ Decide(t, Begun(t, "getAccessToken"), s, token)
    /\ UNCHANGED <<context, gstate, codeVerifier, pendingLogin, handlerReg, issued,
                   nonce, now>>

GetAccessToken(t) == GetAccessTokenCall(t, us)

\* getAccessToken() after `await this.loadToken()`.
GetAccessTokenLoaded(t) ==
    /\ pc[t] = "load"
    /\ op[t] = "getAccessToken"
    /\ token' = IF loc[t] # NoCred THEN loc[t] ELSE token
    /\ Decide(t, [ret EXCEPT ![t].lazy = TRUE], us, token')
    /\ UNCHANGED <<context, gstate, codeVerifier, pendingLogin, handlerReg, issued,
                   nonce, now, op, loc, hist>>

\* forceRefreshToken() up to its first await.
ForceRefreshTokenCall(t, s) ==
    /\ pc[t] = "idle"
    /\ MayCall(t)
    /\ op' = [op EXCEPT ![t] = "forceRefreshToken"]
    /\ hist' = HistBegun(t)
    /\ token' = token
    /\ secret' = secret
    /\ LET R == [Begun(t, "forceRefreshToken") EXCEPT ![t].basis = token, ![t].at = now]
       IN  IF token = NoCred \/ ~token.refresh
           THEN Finish(t, OnPath(R, t, "norefresh"), s, 0)
           ELSE Goto(t, [R EXCEPT ![t].reqs = @ + 1], s, "fetch")
    /\ UNCHANGED <<context, gstate, codeVerifier, pendingLogin, handlerReg, issued,
                   nonce, now, loc>>

ForceRefreshToken(t) == ForceRefreshTokenCall(t, us)

\* A refresh that holds the new credential and does not save it.
RefreshSucceedsUnsaved(t) ==
    /\ pc[t] = "fetch"
    /\ issued < MaxIssued
    /\ \E r \in BOOLEAN, life \in Lifetimes :
        LET new == Cred(issued + 1, r, now + life)
        IN  /\ issued' = issued + 1
            /\ token' = new
            /\ secret' = secret
            /\ hist' = [hist EXCEPT !.responded = TRUE]
            /\ Finish(t, OnPath([ret EXCEPT ![t].fresh = new], t, "refreshed"), us,
                      new.access)
    /\ UNCHANGED <<context, gstate, codeVerifier, pendingLogin, handlerReg, nonce, now,
                   op, loc>>

\* refreshAccessToken() gets a 2xx response: the new credential is held and
\* saveToken() is issued.
RefreshSucceeds(t) ==
    /\ pc[t] = "fetch"
    /\ issued < MaxIssued
    /\ \E r \in BOOLEAN, life \in Lifetimes :
        LET new == Cred(issued + 1, r, now + life)
            R == OnPath([ret EXCEPT ![t].fresh = new], t, "refreshed")
        IN  /\ issued' = issued + 1
            /\ token' = new
            /\ hist' = [hist EXCEPT !.responded = TRUE]
            /\ IF context
               THEN /\ secret' = new
                    /\ Goto(t, [R EXCEPT ![t].writes = @ + 1], us, "save")
               ELSE /\ secret' = secret
                    /\ Finish(t, R, us, new.access)
    /\ UNCHANGED <<context, gstate, codeVerifier, pendingLogin, handlerReg, nonce, now,
                   op, loc>>

\* refreshAccessToken() throws (a non-2xx response, a request error): the catch
\* block starts clearToken().
RefreshFails(t) ==
    /\ pc[t] = "fetch"
    /\ token' = token
    /\ hist' = [hist EXCEPT !.responded = TRUE]
    /\ BeginClear(t, OnPath(ret, t, "refresh_failed"), us)
    /\ UNCHANGED <<context, gstate, codeVerifier, pendingLogin, handlerReg, issued,
                   nonce, now, op, loc>>

\* After `await this.saveToken()`: `return this.token.access_token`, which throws
\* into the catch block when this.token is null by now.
SaveTokenDone(t) ==
    /\ pc[t] = "save"
    /\ token' = token
    /\ IF token = NoCred
       THEN BeginClear(t, OnPath(ret, t, "lost"), us)
       ELSE /\ secret' = secret
            /\ Finish(t, ret, us, token.access)
    /\ UNCHANGED <<context, gstate, codeVerifier, pendingLogin, handlerReg, issued,
                   nonce, now, op, loc, hist>>

\* A clearToken() that leaves the persisted state in place.
ClearTokenDeletedKeepsState(t) ==
    /\ pc[t] = "clear1"
    /\ gstate' = gstate
    /\ Goto(t, ret, us, "clear2")
    /\ UNCHANGED <<context, token, secret, codeVerifier, pendingLogin, handlerReg,
                   issued, nonce, now, op, loc, hist>>

\* clearToken() after `await secrets.delete`: the persisted state is cleared.
ClearTokenDeleted(t) ==
    /\ pc[t] = "clear1"
    /\ gstate' = NoState
    /\ Goto(t, ret, us, "clear2")
    /\ UNCHANGED <<context, token, secret, codeVerifier, pendingLogin, handlerReg,
                   issued, nonce, now, op, loc, hist>>

\* After `await this.clearToken()`: getAccessToken() and forceRefreshToken() set
\* this.token to null and return null; logout() returns.
ClearTokenDone(t) ==
    /\ pc[t] = "clear2"
    /\ token' = IF op[t] = "logout" THEN token ELSE NoCred
    /\ secret' = secret
    /\ Finish(t, ret, us, 0)
    /\ UNCHANGED <<context, gstate, codeVerifier, pendingLogin, handlerReg, issued,
                   nonce, now, op, loc, hist>>

\* isLoggedIn(): synchronous, reads this.token only.
IsLoggedIn(t) ==
    /\ pc[t] = "idle"
    /\ MayCall(t)
    /\ op' = [op EXCEPT ![t] = "isLoggedIn"]
    /\ hist' = [hist EXCEPT !.calls = @ + 1]
    /\ Finish(t, [ret EXCEPT ![t] = [NoRet EXCEPT !.op = "isLoggedIn",
                                        !.basis = token, !.at = now]],
              us, IF LoggedIn(token) THEN 1 ELSE 0)
    /\ UNCHANGED <<context, token, secret, gstate, codeVerifier, pendingLogin,
                   handlerReg, issued, nonce, now, loc>>

\* logout() up to its first await.
Logout(t) ==
    /\ pc[t] = "idle"
    /\ MayCall(t)
    /\ op' = [op EXCEPT ![t] = "logout"]
    /\ hist' = HistBegun(t)
    /\ token' = NoCred
    /\ codeVerifier' = NoVerifier
    /\ BeginClear(t, [Begun(t, "logout") EXCEPT ![t].path = "logout",
                          ![t].basis = token, ![t].sstate = gstate], us)
    /\ UNCHANGED <<context, gstate, pendingLogin, handlerReg, issued, nonce, now, loc>>

\* setContext(): sets the context and starts loadAndPrintTokensOnStartup(), whose
\* loadToken() reads the store.
SetContext ==
    /\ ~context
    /\ pc[Boot] = "idle"
    /\ context' = TRUE
    /\ loc' = [loc EXCEPT ![Boot] = secret]
    /\ op' = [op EXCEPT ![Boot] = "startup"]
    /\ hist' = HistBegun(Boot)
    /\ Goto(Boot, Begun(Boot, "startup"), us, "load")
    /\ UNCHANGED <<token, secret, gstate, codeVerifier, pendingLogin, handlerReg,
                   issued, nonce, now>>

\* loadAndPrintTokensOnStartup() after `await this.loadToken()`.
StartupLoaded ==
    /\ pc[Boot] = "load"
    /\ token' = IF loc[Boot] # NoCred THEN loc[Boot] ELSE token
    /\ secret' = secret
    /\ Finish(Boot, ret, us, 0)
    /\ UNCHANGED <<context, gstate, codeVerifier, pendingLogin, handlerReg, issued,
                   nonce, now, op, loc, hist>>

\* A login() without the check of isLoggedIn().
LoginNoGuard(t) ==
    /\ pc[t] = "idle"
    /\ MayCall(t)
    /\ op' = [op EXCEPT ![t] = "login"]
    /\ token' = token
    /\ secret' = secret
    /\ nonce < MaxNonce
    /\ nonce' = nonce + 1
    /\ codeVerifier' = nonce + 1
    /\ gstate' = IF context THEN nonce + 1 ELSE gstate
    /\ hist' = [HistBegun(t) EXCEPT !.opens = @ + 1]
    /\ Goto(t, [Begun(t, "login") EXCEPT ![t].verifier = nonce + 1], us, "open")
    /\ UNCHANGED <<context, pendingLogin, handlerReg, issued, now, loc>>

\* login() up to `await env.openExternal(uri)`: returns true if logged in; else a
\* new verifier and state (numbered alike), the state persisted, the browser
\* asked to open the authorization URL.  (The client id and redirect URI of
\* config always have a value.)
Login(t) ==
    /\ pc[t] = "idle"
    /\ MayCall(t)
    /\ op' = [op EXCEPT ![t] = "login"]
    /\ token' = token
    /\ secret' = secret
    /\ IF LoggedIn(token)
       THEN /\ hist' = HistBegun(t)
            /\ Finish(t, OnPath(Begun(t, "login"), t, "already"), us, 1)
            /\ UNCHANGED <<codeVerifier, gstate, nonce>>
       ELSE /\ nonce < MaxNonce
            /\ nonce' = nonce + 1
            /\ codeVerifier' = nonce + 1
            /\ gstate' = IF context THEN nonce + 1 ELSE gstate
            /\ hist' = [HistBegun(t) EXCEPT !.opens = @ + 1]
            /\ Goto(t, [Begun(t, "login") EXCEPT ![t].verifier = nonce + 1], us, "open")
    /\ UNCHANGED <<context, pendingLogin, handlerReg, issued, now, loc>>

\* login() after openExternal resolved: the promise executor sets pendingLogin
\* and registers the command handler.  registerCommand throws when the command
\* is registered already; the promise, and with it login(), is then rejected.
LoginOpened(t) ==
    /\ pc[t] = "open"
    /\ pendingLogin' = t
    /\ token' = token
    /\ secret' = secret
    /\ IF handlerReg
       THEN /\ handlerReg' = handlerReg
            /\ Finish(t, OnPath(ret, t, "rejected"), us, -1)
       ELSE /\ handlerReg' = TRUE
            /\ Goto(t, ret, us, "wait")
    /\ UNCHANGED <<context, gstate, codeVerifier, issued, nonce, now, op, loc, hist>>

\* login() after openExternal rejected: the catch block returns false.
LoginOpenFailed(t) ==
    /\ pc[t] = "open"
    /\ token' = token
    /\ secret' = secret
    /\ hist' = [hist EXCEPT !.opens = 0]
    /\ Finish(t, OnPath(ret, t, "open_failed"), us, 0)
    /\ UNCHANGED <<context, gstate, codeVerifier, pendingLogin, handlerReg, issued,
                   nonce, now, op, loc>>

\* The handler finishes: `this.pendingLogin?.resolve(b); this.pendingLogin = null`.
\* The login call pendingLogin belongs to returns b if it is still waiting.
FinishCallback(cb, R, b) ==
    LET p == pendingLogin
        woken == {u \in Tasks : u = p /\ pc[u] = "wait"}
    IN  /\ pendingLogin' = "none"
        /\ pc' = [u \in Tasks |-> IF u = cb \/ u \in woken THEN "idle" ELSE pc[u]]
        /\ ret' = [u \in Tasks |->
                    IF u = cb
                    THEN [R[u] EXCEPT !.done = TRUE, !.val = b, !.pending = p]
                    ELSE IF u \in woken
                    THEN [R[u] EXCEPT !.done = TRUE, !.val = b, !.path = "resolved"]
                    ELSE R[u]]
        /\ us' = us

\* A state check that lets any redirect pass while no state is persisted.
StateMismatchLoose(stored, received) == stored # NoState /\ stored # received

\* `storedState !== receivedState`: an unset persisted state is undefined, an
\* absent parameter is null.
StateMismatch(stored, received) == stored = NoState \/ stored # received

\* The history of the handler when it takes the redirect with state st.
HistHandled(cb, st, exchanging) ==
    [HistBegun(cb) EXCEPT !.opens = 0,
                          !.exchanged = IF exchanging THEN @ \cup {st} ELSE @,
                          !.twice = @ \/ (exchanging /\ st \in hist.exchanged)]

\* handleCallback(uri) while the command is registered: the handler up to its
\* first await.  The redirect carries an error or not, a code or not, and state st.
HandleCallback(cb, err, code, st) ==
    /\ pc[cb] = "idle"
    /\ MayCall(cb)
    /\ handlerReg
    /\ handlerReg' = FALSE
    /\ op' = [op EXCEPT ![cb] = "callback"]
    /\ token' = token
    /\ secret' = secret
    /\ LET stored == IF context THEN gstate ELSE NoState
           exchanging == ~err /\ code /\ ~StateMismatch(stored, st)
           R == [Begun(cb, "callback") EXCEPT
                    ![cb].rstate = st, ![cb].sstate = stored, ![cb].basis = token,
                    ![cb].solo = \A u \in Tasks \ {cb} : pc[u] \in {"idle", "wait"}]
       IN  /\ hist' = HistHandled(cb, st, exchanging)
           /\ IF err
              THEN FinishCallback(cb, OnPath(R, cb, "error"), 0)
              ELSE IF ~code
              THEN FinishCallback(cb, OnPath(R, cb, "nocode"), 0)
              ELSE IF StateMismatch(stored, st)
              THEN FinishCallback(cb, OnPath(R, cb, "mismatch"), 0)
              ELSE /\ pendingLogin' = pendingLogin
                   /\ Goto(cb, [R EXCEPT ![cb].reqs = @ + 1,
                                         ![cb].verifier = codeVerifier], us, "exchange")
    /\ UNCHANGED <<context, gstate, codeVerifier, issued, nonce, now, loc>>

\* A handleCallback(uri) that takes the redirect for the failure of the login
\* whose promise is held.
HandleCallbackFailsLogin(cb) ==
    /\ pc[cb] = "idle"
    /\ MayCall(cb)
    /\ ~handlerReg
    /\ op' = [op EXCEPT ![cb] = "redirect"]
    /\ FinishCallback(cb, [ret EXCEPT ![cb] = [NoRet EXCEPT !.op = "redirect",
                                  !.path = "unregistered"]], 0)
    /\ UNCHANGED <<context, token, secret, gstate, codeVerifier, handlerReg, issued,
                   nonce, now, loc, hist>>

\* handleCallback(uri) while the command is not registered: executeCommand finds
\* no such command, its rejection is dropped, and nothing of the client changes;
\* the URI is never parsed.
HandleCallbackUnregistered(cb) ==
    /\ pc[cb] = "idle"
    /\ MayCall(cb)
    /\ ~handlerReg
    /\ op' = [op EXCEPT ![cb] = "redirect"]
    /\ ret' = [ret EXCEPT ![cb] = [NoRet EXCEPT !.op = "redirect", !.done = TRUE,
                                      !.path = "unregistered"]]
    /\ UNCHANGED <<context, token, secret, gstate, codeVerifier, pendingLogin,
                   handlerReg, issued, nonce, now, pc, loc, hist, us>>

\* An exchange that takes expires_in for the expiry instant.
ExchangeSucceedsNoClock(cb) ==
    /\ pc[cb] = "exchange"
    /\ issued < MaxIssued
    /\ \E r \in BOOLEAN, life \in Lifetimes :
        LET new == Cred(issued + 1, r, life)
        IN  /\ issued' = issued + 1
            /\ token' = new
            /\ secret' = IF context THEN new ELSE secret
            /\ Goto(cb, [ret EXCEPT ![cb].fresh = new, ![cb].at = now,
                                    ![cb].path = "exchanged"], us, "saved")
    /\ UNCHANGED <<context, gstate, codeVerifier, pendingLogin, handlerReg, nonce, now,
                   op, loc, hist>>

\* exchangeCodeForToken() gets a 2xx response: the credential is held and
\* saveToken() is issued.
ExchangeSucceeds(cb) ==
    /\ pc[cb] = "exchange"
    /\ issued < MaxIssued
    /\ \E r \in BOOLEAN, life \in Lifetimes :
        LET new == Cred(issued + 1, r, now + life)
        IN  /\ issued' = issued + 1
            /\ token' = new
            /\ secret' = IF context THEN new ELSE secret
            /\ Goto(cb, [ret EXCEPT ![cb].fresh = new, ![cb].at = now,
                                    ![cb].path = "exchanged"], us, "saved")
    /\ UNCHANGED <<context, gstate, codeVerifier, pendingLogin, handlerReg, nonce, now,
                   op, loc, hist>>

\* An inner catch block that resolves true.
ExchangeFailsResolvesTrue(cb) ==
    /\ pc[cb] = "exchange"
    /\ token' = token
    /\ secret' = secret
    /\ FinishCallback(cb, OnPath(ret, cb, "exchange_failed"), 1)
    /\ UNCHANGED <<context, gstate, codeVerifier, handlerReg, issued, nonce, now, op,
                   loc, hist>>

\* exchangeCodeForToken() throws: the inner catch block resolves false.
ExchangeFails(cb) ==
    /\ pc[cb] = "exchange"
    /\ token' = token
    /\ secret' = secret
    /\ FinishCallback(cb, OnPath(ret, cb, "exchange_failed"), 0)
    /\ UNCHANGED <<context, gstate, codeVerifier, handlerReg, issued, nonce, now, op,
                   loc, hist>>

\* The handler after `await this.saveToken()`: resolves true.
CallbackSaved(cb) ==
    /\ pc[cb] = "saved"
    /\ token' = token
    /\ secret' = secret
    /\ FinishCallback(cb, ret, 1)
    /\ UNCHANGED <<context, gstate, codeVerifier, handlerReg, issued, nonce, now, op,
                   loc, hist>>

\* The states a redirect may carry: none, one login() issued, one it did not.
RedirectStates == {AbsentState} \cup (1 .. MaxNonce)

\* The clock advances.
Tick ==
    /\ \E i \in Instants : i > now /\ now' = i
    /\ UNCHANGED <<context, token, secret, gstate, codeVerifier, pendingLogin,
                   handlerReg, issued, nonce, pc, op, loc, ret, hist, us>>

\* ------------------------------------------------------------- UsageStream, its handlers

\* A connect() without the isConnecting guard.
ConnectNoGuard ==
    GetAccessTokenCall("conn",
        [us EXCEPT !.disconnected = FALSE, !.backoffOld = FALSE,
                   !.late = FALSE, !.second = FALSE, !.cut = FALSE,
                   !.softNew = us.softNew + us.softOld, !.softOld = 0,
                   !.isConnecting = TRUE, !.at["conn"] = "token",
                   !.fetch["conn"] = NoFetch,
                   !.dup = (us.reconnectTimeout = "armed")])

\* connect() called by the extension: returns at once while an attempt is in
\* flight, else starts fetchUsageData(), which awaits getAccessToken().
Connect ==
    LET s0 == [us EXCEPT !.disconnected = FALSE, !.backoffOld = FALSE,
                         !.late = FALSE, !.second = FALSE,
                         !.cut = FALSE,
                         !.softNew = us.softNew + us.softOld, !.softOld = 0]
    IN  IF us.isConnecting
        THEN /\ us' = [s0 EXCEPT !.skipped = TRUE]
             /\ UNCHANGED <<context, token, secret, gstate, codeVerifier, pendingLogin,
                            handlerReg, issued, nonce, now, pc, op, loc, ret, hist>>
        ELSE GetAccessTokenCall("conn",
                 [s0 EXCEPT !.isConnecting = TRUE, !.at["conn"] = "token",
                            !.fetch["conn"] = NoFetch,
                            !.dup = (us.reconnectTimeout = "armed")])

\* The 5 s timer fires: `this.connect()`.  The handle is left in the field.
BackoffFires ==
    /\ us.reconnectTimeout = "armed"
    /\ LET s0 == [us EXCEPT !.reconnectTimeout = "fired", !.liveTimeouts = @ - 1,
                            !.dup = FALSE,
                            !.late = us.backoffOld /\ us.disconnected,
                            !.second = FALSE,
                            !.backoffOld = FALSE]
       IN  IF us.isConnecting
           THEN /\ us' = [s0 EXCEPT !.skipped = TRUE]
                /\ UNCHANGED <<context, token, secret, gstate, codeVerifier,
                               pendingLogin, handlerReg, issued, nonce, now, pc, op,
                               loc, ret, hist>>
           ELSE GetAccessTokenCall("conn",
                    [s0 EXCEPT !.isConnecting = TRUE, !.at["conn"] = "token",
                               !.fetch["conn"] = NoFetch,
                               !.second = us.dup, !.retry = ~@, !.cut = FALSE])

\* A 1 s timer fires: `this.scheduleReconnect()`.
SoftTimerFires(old) ==
    /\ IF old THEN us.softOld > 0 ELSE us.softNew > 0
    /\ us' = ScheduleReconnect(
                 IF old THEN [us EXCEPT !.softOld = @ - 1]
                        ELSE [us EXCEPT !.softNew = @ - 1], old)
    /\ UNCHANGED <<context, token, secret, gstate, codeVerifier, pendingLogin,
                   handlerReg, issued, nonce, now, pc, op, loc, ret, hist>>

\* The 30 s interval fires: fetchUsageData() (one in flight at a time).
PollTick ==
    /\ us.pollInterval
    /\ us.at["poll"] = "idle"
    /\ GetAccessTokenCall("poll", [us EXCEPT !.at["poll"] = "token",
                                             !.fetch["poll"] = NoFetch])

\* A disconnect() that leaves the interval running.
DisconnectedKeepsInterval(s) ==
    [s EXCEPT !.reconnectTimeout = "null",
              !.liveTimeouts = IF s.reconnectTimeout = "armed" THEN @ - 1 ELSE @,
              !.cut = (s.at["conn"] # "idle"),
              !.disconnected = TRUE, !.backoffOld = FALSE, !.dup = FALSE,
              !.late = FALSE, !.second = FALSE,
              !.softOld = s.softOld + s.softNew, !.softNew = 0]

\* The instance as disconnect() leaves it: the 5 s timer held and the interval
\* held are cleared and the fields set to null.
Disconnected(s) ==
    [s EXCEPT !.reconnectTimeout = "null", !.pollInterval = FALSE,
              !.liveTimeouts = IF s.reconnectTimeout = "armed" THEN @ - 1 ELSE @,
              !.liveIntervals = IF s.pollInterval THEN @ - 1 ELSE @,
              !.cut = (s.at["conn"] # "idle"),
              !.disconnected = TRUE, !.backoffOld = FALSE, !.dup = FALSE,
              !.late = FALSE, !.second = FALSE,
              !.softOld = s.softOld + s.softNew, !.softNew = 0]

\* disconnect().
Disconnect ==
    /\ us' = Disconnected(us)
    /\ UNCHANGED <<context, token, secret, gstate, codeVerifier, pendingLogin,
                   handlerReg, issued, nonce, now, pc, op, loc, ret, hist>>

\* The response to the feed request: 2xx with a JSON body; 401 or 403, on which
\* forceRefreshToken() is awaited; anything else (another status, a request
\* error, a body that does not parse) throws.
FeedStatuses == {"ok", "unauthorized", "failed"}

\* A fetchUsageData() that takes a 401 or 403 for any other failure.
FeedResponseNoRefresh(t, status) ==
    /\ us.at[t] = "feed"
    /\ us' = IF status = "ok" THEN Returned(t, us)
             ELSE IF status = "failed" THEN Thrown(t, us, FALSE)
             ELSE Thrown(t, [us EXCEPT !.fetch[t].unauth = @ + 1], TRUE)
    /\ UNCHANGED <<context, token, secret, gstate, codeVerifier, pendingLogin,
                   handlerReg, issued, nonce, now, pc, op, loc, ret, hist>>

\* A fetchUsageData() that forces a refresh on every failure.
FeedResponseRefreshesOnFailure(t, status) ==
    /\ us.at[t] = "feed"
    /\ IF status # "ok"
       THEN ForceRefreshTokenCall(t, [us EXCEPT !.at[t] = "refresh",
                                                !.fetch[t].unauth =
                                                    IF status = "unauthorized"
                                                    THEN @ + 1 ELSE @,
                                                !.fetch[t].forced = @ + 1])
       ELSE /\ us' = Returned(t, us)
            /\ UNCHANGED <<context, token, secret, gstate, codeVerifier, pendingLogin,
                           handlerReg, issued, nonce, now, pc, op, loc, ret, hist>>

FeedResponse(t, status) ==
    /\ us.at[t] = "feed"
    /\ IF status = "unauthorized"
       THEN ForceRefreshTokenCall(t, [us EXCEPT !.at[t] = "refresh",
                                                !.fetch[t].unauth = @ + 1,
                                                !.fetch[t].forced = @ + 1])
       ELSE /\ us' = IF status = "ok" THEN Returned(t, us) ELSE Thrown(t, us, FALSE)
            /\ UNCHANGED <<context, token, secret, gstate, codeVerifier, pendingLogin,
                           handlerReg, issued, nonce, now, pc, op, loc, ret, hist>>

\* The extension after activation: the context is set and the startup load has
\* brought the stored credential, if any, into memory.
InitStream ==
    /\ context = TRUE
    /\ secret \in StoredAtStart
    /\ token = secret
    /\ gstate = NoState
    /\ codeVerifier = NoVerifier
    /\ pendingLogin = "none"
    /\ handlerReg = FALSE
    /\ issued = 1
    /\ nonce = 0
    /\ now = 1000
    /\ pc = [t \in Tasks |-> "idle"]
    /\ op = [t \in Tasks |-> "none"]
    /\ loc = [t \in Tasks |-> NoCred]
    /\ ret = [t \in Tasks |-> NoRet]
    /\ hist = HistInit
    /\ us = UsageStreamInit

NextStream ==
    \/ Connect
    \/ BackoffFires
    \/ \E old \in BOOLEAN : SoftTimerFires(old)
    \/ PollTick
    \/ Disconnect
    \/ \E t \in StreamTasks :
        \/ \E status \in FeedStatuses : FeedResponse(t, status)
        \/ GetAccessTokenLoaded(t)
        \/ RefreshSucceeds(t)
        \/ RefreshFails(t)
        \/ SaveTokenDone(t)
        \/ ClearTokenDeleted(t)
        \/ ClearTokenDone(t)

SpecStream == InitStream /\ [][NextStream]_vars

\* The stream when Node runs the callback of every pending timer.
SpecStreamFair ==
    /\ SpecStream
    /\ WF_vars(BackoffFires)
    /\ WF_vars(SoftTimerFires(FALSE))

\* connect() and the reconnects it schedules, while no callback of the 30 s
\* interval runs.
NextConnect ==
    \/ Connect
    \/ BackoffFires
    \/ \E old \in BOOLEAN : SoftTimerFires(old)
    \/ Disconnect
    \/ \E status \in FeedStatuses : FeedResponse("conn", status)
    \/ GetAccessTokenLoaded("conn")
    \/ RefreshSucceeds("conn")
    \/ RefreshFails("conn")
    \/ SaveTokenDone("conn")
    \/ ClearTokenDeleted("conn")
    \/ ClearTokenDone("conn")

\* The same, when Node runs the callback of every pending timer.
SpecConnectFair ==
    /\ InitStream
    /\ [][NextConnect]_vars
    /\ WF_vars(BackoffFires)
    /\ WF_vars(SoftTimerFires(FALSE))

\* ------------------------------------------------------------- UsageStream (SSE variant), its handlers

\* The instance of the SSE variant after construction.  Beside the fields and
\* the history it shares with the polling variant:
\*   reader    this.reader: null, or a reader ("set"), which may be a spent one
\*   stream    the response body of the attempt in flight: not there, being
\*             read ("open"), or cancelled by disconnect()
\*   buf       the local `buf` of fetchStream(): the block not yet terminated
\*   parsed    history: the blocks the last read completed, each with what
\*             parseSSE() did with it
\*   dropped   history: parseSSE() caught an error in an earlier read of this
\*             connection
\*   wire      what the source has yet to deliver on the connection, where
\*             the delivery is followed (else empty)
\*   recv      history: the content delivered on this connection so far
\*   events    history: the blocks parsed on this connection so far, each
\*             with what parseSSE() did with it
SSEStreamInit ==
    [transport |-> "sse", isConnecting |-> FALSE, reader |-> "null",
     reconnectTimeout |-> "null",
     at |-> [t \in StreamTasks |-> "idle"], softNew |-> 0, softOld |-> 0,
     liveTimeouts |-> 0,
     fetch |-> [t \in StreamTasks |-> NoFetch],
     disconnected |-> FALSE, backoffOld |-> FALSE, late |-> FALSE,
     dup |-> FALSE, second |-> FALSE, skipped |-> FALSE, retry |-> FALSE,
     cut |-> FALSE,
     stream |-> "none", buf |-> <<>>, parsed |-> <<>>, dropped |-> FALSE,
     wire |-> <<>>, recv |-> <<>>, events |-> <<>>]

\* fetchStream() leaves its read loop: its locals are gone, and so is the
\* connection.
LoopLeft(s) ==
    [s EXCEPT !.stream = "none", !.buf = <<>>, !.parsed = <<>>, !.dropped = FALSE,
              !.wire = <<>>, !.recv = <<>>, !.events = <<>>]

\* The response to the stream request: 2xx with a body, whose reader is taken
\* and read; 2xx without a body, another status or a request error, which
\* throw; 401 or 403, on which forceRefreshToken() is awaited.
SSEStatuses == FeedStatuses \cup {"nobody"}

FeedResponseSSE(status) ==
    /\ us.at["conn"] = "feed"
    /\ IF status = "unauthorized"
       THEN ForceRefreshTokenCall("conn", [us EXCEPT !.at["conn"] = "refresh",
                                                     !.fetch["conn"].unauth = @ + 1,
                                                     !.fetch["conn"].forced = @ + 1])
       ELSE /\ us' = IF status = "ok"
                     THEN [us EXCEPT !.reader = "set", !.stream = "open",
                                     !.at["conn"] = "read"]
                     ELSE Thrown("conn", us, FALSE)
            /\ UNCHANGED <<context, token, secret, gstate, codeVerifier, pendingLogin,
                           handlerReg, issued, nonce, now, pc, op, loc, ret, hist>>

\* The blocks a source sends.
UsageAll ==
    <<DataPrefix, LBrace, Member("points", "num", "5"), Comma,
      Member("total_points", "str", "unlimited"), Comma,
      Member("context_length", "str", "-k"), RBrace>>
ContextOnly ==
    <<EventUsage, NL, DataPrefix, LBrace, Member("context_length", "num", "8"), RBrace>>
PointsOverLines ==
    <<DataPrefix, LBrace, NL, DataPrefix, Member("points", "str", "5"), NL,
      DataPrefix, RBrace>>
Ping == <<DataPrefix, LBrace, Member("ping", "num", "1"), RBrace>>
PingWithTotal ==
    <<DataPrefix, LBrace, Member("ping", "num", "1"), Comma,
      Member("total_points", "num", "100"), RBrace>>
StatusOnly == <<DataPrefix, LBrace, Member("status", "str", "ok"), RBrace>>
Unclosed == <<DataPrefix, LBrace, Member("points", "num", "5")>>
KeepaliveEvent == <<EventKeepalive, NL, DataPrefix, LBrace, RBrace>>
EmptyData == <<DataPrefix>>
NullData == <<DataPrefix, Literal("null", "null")>>

Blocks ==
    {UsageAll, ContextOnly, PointsOverLines, Ping, PingWithTotal, StatusOnly,
     Unclosed, KeepaliveEvent, EmptyData, NullData}

\* What one reader.read() may deliver: a block with the blank line that ends
\* it, two such blocks, a block cut before its end, the rest of it, or one
\* line feed.
Terminated(b) == b \o <<NL, NL>>

Reads ==
    {Terminated(b) : b \in Blocks}
        \cup {Terminated(Unclosed) \o Terminated(ContextOnly),
              Unclosed, <<RBrace, NL, NL>>, <<NL>>}

\* A `parts.pop()` whose result is not kept: `buf` is empty after every read.
RemainderDropped(parts) == <<>>

\* `parts = buf.split('\n\n')`: the blocks the read completed, each with what
\* parseSSE() did with it, and `buf = parts.pop()`.
ParsedBlocks(parts) ==
    [i \in 1 .. (Len(parts) - 1) |-> [chunk |-> parts[i], out |-> ParseSSE(parts[i])]]

Remainder(parts) == parts[Len(parts)]

\* A read loop that a decoding error ends.
ReadStopsOnDecodeError(r) ==
    /\ us.at["conn"] = "read"
    /\ us.stream = "open"
    /\ LET parts == Split(us.buf \o r, 2)
           done == ParsedBlocks(parts)
           caught == \E i \in DOMAIN done : done[i].out.path = "caught"
       IN  /\ Len(Remainder(parts)) <= MaxBuf
           /\ us' = IF caught
                     THEN Thrown("conn", LoopLeft(us), FALSE)
                     ELSE [us EXCEPT !.buf = Remainder(parts), !.parsed = done]
    /\ UNCHANGED <<context, token, secret, gstate, codeVerifier, pendingLogin,
                   handlerReg, issued, nonce, now, pc, op, loc, ret, hist>>

\* reader.read() resolves with a value: one turn of the read loop.
Read(r) ==
    /\ us.at["conn"] = "read"
    /\ us.stream = "open"
    /\ LET parts == Split(us.buf \o r, 2)
           before == \E i \in DOMAIN us.parsed : us.parsed[i].out.path = "caught"
       IN  /\ Len(Remainder(parts)) <= MaxBuf
           /\ us' = [us EXCEPT !.buf = Remainder(parts),
                                !.parsed = ParsedBlocks(parts),
                                !.dropped = @ \/ before]
    /\ UNCHANGED <<context, token, secret, gstate, codeVerifier, pendingLogin,
                   handlerReg, issued, nonce, now, pc, op, loc, ret, hist>>

\* The same turn of the read loop, when reader.read() resolves with the next
\* k symbols of the content the source has yet to deliver.
ReadChunk(k) ==
    /\ us.at["conn"] = "read"
    /\ us.stream = "open"
    /\ k <= Len(us.wire)
    /\ LET r == SubSeq(us.wire, 1, k)
           parts == Split(us.buf \o r, 2)
           before == \E i \in DOMAIN us.parsed : us.parsed[i].out.path = "caught"
       IN  us' = [us EXCEPT !.buf = Remainder(parts),
                            !.parsed = ParsedBlocks(parts),
                            !.dropped = @ \/ before,
                            !.wire = SubSeq(us.wire, k + 1, Len(us.wire)),
                            !.recv = @ \o r,
                            !.events = @ \o ParsedBlocks(parts)]
    /\ UNCHANGED <<context, token, secret, gstate, codeVerifier, pendingLogin,
                   handlerReg, issued, nonce, now, pc, op, loc, ret, hist>>

\* reader.read() resolves with done: the source ended the stream, or
\* disconnect() cancelled the reader.  The loop breaks, fetchStream() returns
\* and connect() runs its `finally`.
ReadDone ==
    /\ us.at["conn"] = "read"
    /\ us' = Returned("conn",
                 [LoopLeft(us) EXCEPT !.fetch["conn"].ended = (us.stream = "open")])
    /\ UNCHANGED <<context, token, secret, gstate, codeVerifier, pendingLogin,
                   handlerReg, issued, nonce, now, pc, op, loc, ret, hist>>

\* reader.read() rejects (the connection broke): fetchStream() throws.
ReadFails ==
    /\ us.at["conn"] = "read"
    /\ us.stream = "open"
    /\ us' = Thrown("conn", LoopLeft(us), FALSE)
    /\ UNCHANGED <<context, token, secret, gstate, codeVerifier, pendingLogin,
                   handlerReg, issued, nonce, now, pc, op, loc, ret, hist>>

\* The instance as disconnect() of the SSE variant leaves it: the 5 s timer
\* held is cleared, the reader held is cancelled, and both fields are null.
DisconnectedSSE(s) ==
    [s EXCEPT !.reconnectTimeout = "null", !.reader = "null",
              !.liveTimeouts = IF s.reconnectTimeout = "armed" THEN @ - 1 ELSE @,
              !.cut = (s.at["conn"] # "idle"),
              !.stream = IF s.reader = "set" /\ @ = "open" THEN "cancelled" ELSE @,
              !.disconnected = TRUE, !.backoffOld = FALSE, !.dup = FALSE,
              !.late = FALSE, !.second = FALSE,
              !.softOld = s.softOld + s.softNew, !.softNew = 0]

DisconnectSSE ==
    /\ us' = DisconnectedSSE(us)
    /\ UNCHANGED <<context, token, secret, gstate, codeVerifier, pendingLogin,
                   handlerReg, issued, nonce, now, pc, op, loc, ret, hist>>

\* The extension after activation, with the SSE variant of the stream: no
\* credential is stored, or one that is valid or expired, with or without a
\* refresh token.
InitSSE ==
    /\ context = TRUE
    /\ secret \in {NoCred, Cred(1, TRUE, 1400), Cred(1, FALSE, 1400),
                    Cred(1, TRUE, 1100), Cred(1, FALSE, 1100)}
    /\ token = secret
    /\ gstate = NoState
    /\ codeVerifier = NoVerifier
    /\ pendingLogin = "none"
    /\ handlerReg = FALSE
    /\ issued = 1
    /\ nonce = 0
    /\ now = 1000
    /\ pc = [t \in Tasks |-> "idle"]
    /\ op = [t \in Tasks |-> "none"]
    /\ loc = [t \in Tasks |-> NoCred]
    /\ ret = [t \in Tasks |-> NoRet]
    /\ hist = HistInit
    /\ us = SSEStreamInit

NextSSE ==
    \/ Connect
    \/ BackoffFires
    \/ \E old \in BOOLEAN : SoftTimerFires(old)
    \/ DisconnectSSE
    \/ \E status \in SSEStatuses : FeedResponseSSE(status)
    \/ \E r \in Reads : Read(r)
    \/ ReadDone
    \/ ReadFails
    \/ GetAccessTokenLoaded("conn")
    \/ RefreshSucceeds("conn")
    \/ RefreshFails("conn")
    \/ SaveTokenDone("conn")
    \/ ClearTokenDeleted("conn")
    \/ ClearTokenDone("conn")

SpecSSE == InitSSE /\ [][NextSSE]_vars

\* The SSE variant for a user whose stored credential is valid and has no
\* refresh token: getAccessToken() returns the token and forceRefreshToken()
\* returns null, both without I/O, so that no call of the OAuth2Client is
\* ever suspended and no 1 s timer is ever set.
InitRead == InitSSE /\ secret = Cred(1, FALSE, 1400)

NextRead ==
    \/ Connect
    \/ BackoffFires
    \/ DisconnectSSE
    \/ \E status \in SSEStatuses : FeedResponseSSE(status)
    \/ \E r \in Reads : Read(r)
    \/ ReadDone
    \/ ReadFails

SpecRead == InitRead /\ [][NextRead]_vars

\* A block that follows an extra line feed.
AfterLineFeed == <<NL>> \o Ping

\* The streams whose delivery is followed: up to MaxBlocks blocks, each with
\* the blank line that ends it, and possibly the beginning of one more.
FrameBlocks == {UsageAll, ContextOnly, PointsOverLines, Unclosed, AfterLineFeed}

RECURSIVE StreamsOf(_)
StreamsOf(n) ==
    IF n = 0 THEN {<<>>}
    ELSE {Terminated(b) \o rest : b \in FrameBlocks, rest \in StreamsOf(n - 1)}

Streams ==
    LET whole == UNION {StreamsOf(n) : n \in 1 .. MaxBlocks}
    IN  whole \cup {w \o Unclosed : w \in whole}

\* The largest value of one reader.read().
MaxChunk == 12

\* One connection of the SSE variant to a source that sends one of Streams,
\* cut into reads at any places.
InitFrame ==
    /\ context = TRUE
    /\ secret = Cred(1, FALSE, 1400)
    /\ token = secret
    /\ gstate = NoState
    /\ codeVerifier = NoVerifier
    /\ pendingLogin = "none"
    /\ handlerReg = FALSE
    /\ issued = 1
    /\ nonce = 0
    /\ now = 1000
    /\ pc = [t \in Tasks |-> "idle"]
    /\ op = [t \in Tasks |-> "none"]
    /\ loc = [t \in Tasks |-> NoCred]
    /\ ret = [t \in Tasks |-> NoRet]
    /\ hist = HistInit
    /\ us \in {[SSEStreamInit EXCEPT !.wire = w] : w \in Streams}

NextFrame ==
    \/ Connect
    \/ FeedResponseSSE("ok")
    \/ \E k \in 1 .. MaxChunk : ReadChunk(k)
    \/ ReadDone

SpecFrame == InitFrame /\ [][NextFrame]_vars

\* The same, when Node runs the callback of every pending timer.
SpecSSEFair ==
    /\ SpecSSE
    /\ WF_vars(BackoffFires)
    /\ WF_vars(SoftTimerFires(FALSE))

\* ------------------------------------------------------------- OAuth2Client, its specifications

Next ==
    \/ SetContext
    \/ StartupLoaded
    \/ Tick
    \/ \E t \in Callers :
        \/ GetAccessToken(t)
        \/ ForceRefreshToken(t)
        \/ Logout(t)
        \/ IsLoggedIn(t)
    \/ \E t \in Tasks :
        \/ GetAccessTokenLoaded(t)
        \/ RefreshSucceeds(t)
        \/ RefreshFails(t)
        \/ SaveTokenDone(t)
        \/ ClearTokenDeleted(t)
        \/ ClearTokenDone(t)

Spec == Init /\ [][Next]_vars

\* The login flow: login(), the redirects, logout() and the startup load.
\* For the login flow the stored credential matters by its presence only.
InitLogin == Init /\ secret \in {NoCred, Cred(1, TRUE, 1300)}

NextLogin ==
    \/ SetContext
    \/ StartupLoaded
    \/ \E t \in Callers :
        \/ Login(t)
        \/ LoginOpened(t)
        \/ LoginOpenFailed(t)
        \/ Logout(t)
        \/ ClearTokenDeleted(t)
        \/ ClearTokenDone(t)
    \/ \E cb \in Callbacks :
        \/ \E err, code \in BOOLEAN, st \in RedirectStates : HandleCallback(cb, err, code, st)
        \/ HandleCallbackUnregistered(cb)
        \/ ExchangeSucceeds(cb)
        \/ ExchangeFails(cb)
        \/ CallbackSaved(cb)

SpecLogin == InitLogin /\ [][NextLogin]_vars

\* The token endpoint answers every exchange request and the secret store every
\* write: a handler that has taken a redirect runs to its end.
SpecLoginFair ==
    /\ SpecLogin
    /\ \A cb \in Callbacks :
        /\ WF_vars(ExchangeSucceeds(cb) \/ ExchangeFails(cb))
        /\ WF_vars(CallbackSaved(cb))

\* The login flow of a user whose stored credential has expired, with or
\* without a refresh token, while another part of the extension asks for the
\* access token.
InitLoginRefresh == Init /\ secret \in {Cred(1, r, 1100) : r \in BOOLEAN}

NextLoginRefresh ==
    \/ SetContext
    \/ StartupLoaded
    \/ \E t \in Callers :
        \/ Login(t)
        \/ LoginOpened(t)
        \/ LoginOpenFailed(t)
        \/ GetAccessToken(t)
        \/ GetAccessTokenLoaded(t)
        \/ RefreshSucceeds(t)
        \/ RefreshFails(t)
        \/ SaveTokenDone(t)
        \/ ClearTokenDeleted(t)
        \/ ClearTokenDone(t)
    \/ \E cb \in Callbacks :
        \/ \E st \in RedirectStates : HandleCallback(cb, FALSE, TRUE, st)
        \/ ExchangeSucceeds(cb)
        \/ ExchangeFails(cb)
        \/ CallbackSaved(cb)

SpecLoginRefresh == InitLoginRefresh /\ [][NextLoginRefresh]_vars

\* ------------------------------------------------------------- claims on getAccessToken / forceRefreshToken

GetCalls == {t \in Tasks : ret[t].op = "getAccessToken"}

\* The credential is expired or within the 5-minute margin at instant `at`.
NeedsRefresh(cred, at) == cred.expires_at # 0 /\ cred.expires_at - at < Margin

\* The credential expires more than 5 minutes after instant `at`.
FarFromExpiry(cred, at) == cred.expires_at > at + Margin

\* C1: getAccessToken() calls that all started before the first refresh response
\* and found a credential that needs a refresh and has a refresh token send one
\* refresh request between them, and those that have returned returned the same
\* token.
C1_SingleFlightRefresh ==
    LET E == {t \in GetCalls : /\ ret[t].early
                               /\ ret[t].basis.refresh
                               /\ NeedsRefresh(ret[t].basis, ret[t].at)}
    IN  /\ Cardinality({t \in E : ret[t].reqs > 0}) <= 1
        /\ \A t, u \in E : ret[t].done /\ ret[u].done => ret[t].val = ret[u].val

\* C2: at most one refresh request is outstanding at any time, and two calls
\* that overlapped and each ran a refresh have returned the same result.
C2_OneOutstandingRefresh ==
    /\ Cardinality({t \in Tasks : pc[t] = "fetch"}) <= 1
    /\ \A t, u \in Tasks :
            /\ ret[t].done /\ ret[u].done
            /\ ret[t].reqs > 0 /\ ret[u].reqs > 0
            => ret[t].val = ret[u].val

\* C7: a getAccessToken() call that found the credential in need of a refresh
\* returns null or another access token than that credential's.
C7_NeverExpiredToken ==
    \A t \in GetCalls :
        ret[t].done /\ NeedsRefresh(ret[t].basis, ret[t].at)
            => ret[t].val = 0 \/ ret[t].val # ret[t].basis.access

\* C8: a getAccessToken() call that finds a credential (held, or loaded from the
\* store) expiring more than 5 minutes later returns that credential's access
\* token at once, having sent no refresh request and issued no write or delete
\* of the stored credential.
C8_ValidTokenReturned ==
    \A t \in GetCalls :
        FarFromExpiry(ret[t].basis, ret[t].at)
            => /\ ret[t].done
               /\ ret[t].val = ret[t].basis.access
               /\ ret[t].reqs = 0
               /\ ret[t].writes = 0

\* A call loaded the stored credential, found it far from expiry, and returned
\* its access token; the credential is still the one held and stored.
C8_Witness ==
    \E t \in GetCalls :
        /\ ret[t].done /\ ret[t].lazy /\ FarFromExpiry(ret[t].basis, ret[t].at)
        /\ ret[t].val = 1 /\ ret[t].path = "valid"
        /\ token = ret[t].basis /\ secret = ret[t].basis

\* C9: a getAccessToken() call that finds a credential in need of a refresh and
\* without a refresh token returns null, having sent no refresh request; when
\* no other task overlaps the call, neither this.token nor the stored credential
\* exists after it.
C9_NoRefreshTokenCleared ==
    \A t \in GetCalls :
        /\ ret[t].done
        /\ ret[t].basis # NoCred /\ ~ret[t].basis.refresh
        /\ NeedsRefresh(ret[t].basis, ret[t].at)
        => /\ ret[t].val = 0
           /\ ret[t].reqs = 0
           /\ ret[t].solo => token = NoCred /\ secret = NoCred

\* Such a call has returned, after one delete of the stored credential.
C9_Witness ==
    \E t \in GetCalls :
        /\ ret[t].done /\ ret[t].solo /\ ret[t].path = "norefresh"
        /\ ret[t].basis # NoCred /\ ~ret[t].basis.refresh
        /\ NeedsRefresh(ret[t].basis, ret[t].at)
        /\ ret[t].writes = 1
        /\ token = NoCred /\ secret = NoCred

\* C10: a getAccessToken() call whose refresh request fails returns null; of a
\* call that no other task overlaps: when its refresh request fails the
\* credential is cleared in memory and in the store; when it succeeds the call
\* returns the new access token and the new credential is the one held and
\* stored.
C10_RefreshOutcome ==
    \A t \in GetCalls :
        ret[t].done /\ ret[t].reqs > 0
        => /\ ret[t].reqs = 1
           /\ ret[t].path = "refresh_failed" => ret[t].val = 0
           /\ ret[t].solo
                => /\ ret[t].path \in {"refresh_failed", "refreshed"}
                   /\ ret[t].path = "refresh_failed"
                        => token = NoCred /\ secret = NoCred
                   /\ ret[t].path = "refreshed"
                        => /\ ret[t].val = ret[t].fresh.access
                           /\ ret[t].val # ret[t].basis.access
                           /\ token = ret[t].fresh
                           /\ secret = ret[t].fresh

\* Both outcomes of C10 are witnessed by the failure after a success: the
\* refreshed credential is within the margin one instant later.
C10_Witness ==
    \E t \in GetCalls :
        /\ ret[t].done /\ ret[t].solo /\ ret[t].reqs = 1
        /\ ret[t].path = "refresh_failed"
        /\ ret[t].basis.access = 2
        /\ token = NoCred /\ secret = NoCred

\* ------------------------------------------------------------- claims on login() and the redirect

\* The login() calls that have asked for the browser and have not returned.
LoginsPending == {t \in Tasks : op[t] = "login" /\ pc[t] \in {"open", "wait"}}

\* C3: while a login attempt is pending there has been one browser-open call and
\* there is one pending result, and the attempt's completion handle, verifier
\* and expected state are not overwritten by another login() call.
C3_OneLoginAttempt ==
    /\ hist.opens <= 1
    /\ Cardinality(LoginsPending) <= 1
    /\ \A t \in Tasks :
            op[t] = "login" /\ pc[t] = "wait"
            => /\ pendingLogin = t
               /\ codeVerifier \in {NoVerifier, ret[t].verifier}
               /\ gstate \in {NoState, ret[t].verifier}

\* C4: a handled redirect whose state differs from the persisted state sends no
\* token-exchange request, builds no credential and resolves false.
C4_MismatchNoExchange ==
    \A cb \in Callbacks :
        ret[cb].op = "callback" /\ ret[cb].rstate # ret[cb].sstate
        => /\ ret[cb].reqs = 0
           /\ ret[cb].fresh = NoCred
           /\ ret[cb].done
           /\ ret[cb].val = 0

\* A redirect with a code and a state that login() never persisted reaches the
\* state check of a pending login and is refused there.
C4_Witness ==
    \E cb \in Callbacks :
        /\ ret[cb].op = "callback" /\ ret[cb].done
        /\ ret[cb].path = "mismatch"
        /\ ret[cb].sstate = 1 /\ ret[cb].rstate = 2
        /\ ret[cb].pending \in Callers
        /\ ret[ret[cb].pending].path = "resolved"
        /\ ret[ret[cb].pending].val = 0
        /\ token = NoCred

\* ------------------------------------------------------------- claims on UsageStream

\* C5: after disconnect() no reconnect scheduled before it calls connect(), until
\* connect() is called explicitly: neither the 5 s timer nor the 1 s timer set
\* after a successful forced refresh.
C5_NoReconnectAfterDisconnect == ~us.late

\* C6: when connect() starts an attempt while a 5 s reconnect timer is pending,
\* that timer does not later start a second attempt.
C6_OneConnectionAttempt == ~us.second

\* ------------------------------------------------------------- claims on forceRefreshToken()

ForceCalls == {t \in Tasks : ret[t].op = "forceRefreshToken"}

\* C11: after a forceRefreshToken() call that no other task overlaps has
\* returned null (the store being within reach: the context is set), neither
\* this.token nor the stored credential exists.
C11_ForceRefreshNullClears ==
    \A t \in ForceCalls :
        context /\ ret[t].done /\ ret[t].solo /\ ret[t].val = 0
        => token = NoCred /\ secret = NoCred

\* ------------------------------------------------------------- claims on the redirect handler

\* The handled redirects: invocations of the command handler.
Handled == {cb \in Callbacks : ret[cb].op = "callback"}

\* C12: a redirect with a code and the persisted state whose token exchange
\* succeeded, handled while no other task ran: the new credential is the one held
\* and stored, its expires_at is the instant of the response plus expires_in,
\* the handler resolved the pending login with true and isLoggedIn() is true.
C12_ExchangeStoresCredential ==
    \A cb \in Handled :
        ret[cb].done /\ ret[cb].solo /\ ret[cb].path = "exchanged"
        => /\ ret[cb].rstate = ret[cb].sstate
           /\ ret[cb].reqs = 1
           /\ ret[cb].fresh # NoCred
           /\ \E life \in Lifetimes : ret[cb].fresh.expires_at = ret[cb].at + life
           /\ token = ret[cb].fresh
           /\ secret = ret[cb].fresh
           /\ ret[cb].val = 1
           /\ LoggedIn(token)

\* Such a redirect has been handled, and the login() call that awaited it has
\* returned true.
C12_Witness ==
    \E cb \in Handled :
        /\ ret[cb].done /\ ret[cb].solo /\ ret[cb].path = "exchanged"
        /\ ret[cb].pending \in Callers
        /\ ret[ret[cb].pending].path = "resolved"
        /\ ret[ret[cb].pending].val = 1
        /\ token.access = 2 /\ secret = token

\* The redirects delivered while the command was not registered.
Stray == {cb \in Callbacks : ret[cb].op = "redirect"}

\* C13: the handler sends at most one token-exchange request for the state of
\* one login attempt, no two exchanges for one state are in progress, and a
\* redirect delivered when the handler has already taken one sends no exchange
\* request, builds no credential and resolves nothing.
C13_OneExchangePerAttempt ==
    /\ ~hist.twice
    /\ \A a, b \in Handled :
            /\ a # b
            /\ pc[a] \in {"exchange", "saved"} /\ pc[b] \in {"exchange", "saved"}
            => ret[a].rstate # ret[b].rstate
    /\ \A cb \in Stray :
            /\ ret[cb].done
            /\ ret[cb].reqs = 0
            /\ ret[cb].fresh = NoCred
            /\ ret[cb].pending = "none"

\* C14: a redirect delivered while the command is not registered (no login()
\* awaits a redirect) sends no exchange request, leaves this.token, the stored
\* credential, the persisted state and the verifier as they were, and resolves
\* no login() call.
C14_StrayRedirectIgnored ==
    [][\A cb \in Callbacks :
            HandleCallbackUnregistered(cb)
            => /\ UNCHANGED <<token, secret, gstate, codeVerifier, issued>>
               /\ UNCHANGED <<pendingLogin, handlerReg, pc>>
               /\ ret'[cb].reqs = 0]_vars

\* A redirect was dropped after a login had completed: no login() is pending,
\* and the credential, the persisted state and the verifier are in place.
C14_Witness ==
    \E cb \in Stray :
        /\ ret[cb].done
        /\ LoginsPending = {}
        /\ ~handlerReg
        /\ token.access = 2 /\ secret = token
        /\ gstate # NoState /\ codeVerifier # NoVerifier

\* C16: a handled redirect that carried an error, or no code, or whose token
\* exchange failed: the handler resolved with false, built no credential and
\* issued no store write; with an error or without a code it sent no exchange
\* request; when no other task ran meanwhile, this.token is as it was, the
\* command is free and no promise is held, so that login() can start anew.
C16_FailedRedirect ==
    \A cb \in Handled :
        ret[cb].done /\ ret[cb].path \in {"error", "nocode", "exchange_failed"}
        => /\ ret[cb].val = 0
           /\ ret[cb].fresh = NoCred
           /\ ret[cb].writes = 0
           /\ ret[cb].reqs = IF ret[cb].path = "exchange_failed" THEN 1 ELSE 0
           /\ ret[cb].solo
                => /\ token = ret[cb].basis
                   /\ ~handlerReg
                   /\ pendingLogin = "none"
                   /\ ret[cb].pending \in Callers => pc[ret[cb].pending] # "wait"

\* The exchange of a pending login failed: the login() call returned false, no
\* credential exists and the command is free.
C16_Witness ==
    \E cb \in Handled :
        /\ ret[cb].done /\ ret[cb].solo /\ ret[cb].path = "exchange_failed"
        /\ ret[cb].pending \in Callers
        /\ ret[ret[cb].pending].path = "resolved"
        /\ ret[ret[cb].pending].val = 0
        /\ token = NoCred /\ secret = NoCred /\ ~handlerReg

\* ------------------------------------------------------------- claims on the result of login()

\* C15: a login() call that opened the browser returns only by a handled
\* redirect resolving its promise, and a login() call that is waiting when a
\* redirect has been taken by the handler does not wait forever.
C15_ResolvedByRedirect ==
    /\ [](\A t \in Callers :
            ret[t].op = "login" /\ ret[t].done
            => ret[t].path \in {"already", "open_failed", "resolved"})
    /\ \A t \in Callers :
            (op[t] = "login" /\ pc[t] = "wait" /\ ~handlerReg) ~> (pc[t] # "wait")

\* C17: a login() call made while this.token holds an access token returns true
\* in the same step: no browser-open call, no handler registered, and the
\* verifier, the persisted state, this.token and the stored credential unchanged.
C17_LoginWhenAuthenticated ==
    [][\A t \in Callers :
            Login(t) /\ token.access # 0
            => /\ pc'[t] = "idle" /\ ret'[t].done /\ ret'[t].val = 1
               /\ hist'.opens = hist.opens
               /\ UNCHANGED <<token, secret, gstate, codeVerifier, nonce>>
               /\ UNCHANGED <<handlerReg, pendingLogin>>]_vars

\* login() has returned true at once, the credential of an earlier session held.
C17_Witness ==
    \E t \in Callers :
        /\ ret[t].op = "login" /\ ret[t].done /\ ret[t].path = "already"
        /\ ret[t].val = 1
        /\ token.access = 1 /\ secret = token
        /\ ~handlerReg /\ hist.opens = 0 /\ codeVerifier = NoVerifier

\* ------------------------------------------------------------- claims on logout()

\* C18: after a logout() call that no other task overlaps has returned (the
\* context being set), this.token, the stored credential and the persisted
\* state are cleared, whatever they were before: also when nothing was held or
\* stored, as after an earlier logout().
C18_LogoutClears ==
    \A t \in Callers :
        ret[t].op = "logout" /\ ret[t].done /\ ret[t].solo /\ context
        => /\ token = NoCred
           /\ secret = NoCred
           /\ gstate = NoState
           /\ codeVerifier = NoVerifier
           /\ ret[t].val = 0

\* logout() has cleared a credential and a persisted state left by a login.
C18_Witness ==
    \E t \in Callers :
        /\ ret[t].op = "logout" /\ ret[t].done /\ ret[t].solo /\ context
        /\ ret[t].basis.access = 2
        /\ ret[t].sstate # NoState
        /\ token = NoCred /\ secret = NoCred /\ gstate = NoState

\* ------------------------------------------------------------- claims on isLoggedIn()

\* C19: isLoggedIn() returns true exactly when this.token is a credential with
\* an access token, whatever its expires_at; it sends no request, reads nothing
\* from the store and changes nothing of the client.
C19_IsLoggedIn ==
    [][\A t \in Callers :
            IsLoggedIn(t)
            => /\ ret'[t].done
               /\ (ret'[t].val = 1) <=> (token # NoCred /\ token.access # 0)
               /\ ret'[t].reqs = 0 /\ ret'[t].writes = 0
               /\ UNCHANGED <<token, secret, gstate, codeVerifier, issued, loc>>
               /\ UNCHANGED <<pendingLogin, handlerReg, context>>]_vars

\* isLoggedIn() has returned true for a credential that is past its expiry.
C19_Witness ==
    \E t \in Callers :
        /\ ret[t].op = "isLoggedIn" /\ ret[t].done
        /\ ret[t].val = 1
        /\ ret[t].basis.expires_at # 0
        /\ ret[t].at > ret[t].basis.expires_at

\* ------------------------------------------------------------- claims on the 401/403 path

\* C20: one fetchUsageData() sends one feed request; on a 401 or 403 response
\* it calls forceRefreshToken() once; when that returns a token it sets one 1 s
\* reconnect timer and returns without sending the request again, and when it
\* returns null it sets none.
C20_OneRefreshPerUnauthorized ==
    \A t \in StreamTasks :
        LET f == us.fetch[t]
        IN  /\ f.feeds <= 1
            /\ f.unauth <= f.feeds
            /\ f.forced = f.unauth
            /\ f.soft <= f.forced
            /\ us.at[t] = "idle" /\ f.forced = 1
                    => f.soft = IF f.newToken THEN 1 ELSE 0

\* A fetch got a 401 or 403, the forced refresh returned a token, and the 1 s
\* timer it set is pending.
C20_Witness ==
    \E t \in StreamTasks :
        /\ us.at[t] = "idle"
        /\ us.fetch[t].unauth = 1 /\ us.fetch[t].forced = 1
        /\ us.fetch[t].soft = 1 /\ us.fetch[t].feeds = 1
        /\ us.softNew = 1
        /\ token.access = 2

\* ------------------------------------------------------------- claims on connect() and disconnect()

\* The fields of the stream a connect() call may act on: where each fetch is
\* suspended, what it has sent, the polling interval and the timers pending.
StreamFootprint(s) ==
    <<s.at, s.fetch, s.pollInterval, s.isConnecting, s.softNew + s.softOld>>

\* C21: exactly one connection attempt is in flight while isConnecting is set,
\* and a connect() call made meanwhile, by the application or by the 5 s
\* timer, requests no token, sends no feed request and sets no timer.
C21_OneAttemptInFlight ==
    /\ [](us.isConnecting <=> us.at["conn"] # "idle")
    /\ [][(us.isConnecting /\ (Connect \/ BackoffFires))
            => /\ UNCHANGED <<pc, op, ret, hist, token, secret, loc>>
               /\ StreamFootprint(us') = StreamFootprint(us)
               /\ us'.reconnectTimeout # "armed"
                      \/ us'.reconnectTimeout = us.reconnectTimeout]_vars

\* A connect() call returned at the guard while the attempt in flight waits for
\* the feed response.
C21_Witness ==
    /\ us.isConnecting
    /\ us.skipped
    /\ us.at["conn"] = "feed"
    /\ us.fetch["conn"].feeds = 1

\* C22: while the polling interval is active (the client is streaming), no
\* connect() call has a feed request of its own outstanding.
C22_ConnectNoOpWhileStreaming ==
    us.pollInterval => us.at["conn"] # "feed"

\* C25: disconnect() called while no connect() is in flight leaves no 5 s timer
\* pending and no interval running, and a second disconnect() right after it
\* changes nothing.
C25_DisconnectIdempotent ==
    [][(Disconnect /\ ~us.isConnecting)
        => /\ us'.reconnectTimeout = "null"
           /\ ~us'.pollInterval
           /\ Disconnected(us') = us']_vars

\* disconnect() has run after a connect() whose first fetch had succeeded, so
\* that an interval was running, and no timer is pending.
C25_Witness ==
    /\ us.disconnected
    /\ ~us.isConnecting
    /\ us.fetch["conn"].feeds = 1 /\ ~us.fetch["conn"].threw
    /\ us.fetch["conn"].unauth = 0
    /\ us.reconnectTimeout = "null" /\ ~us.pollInterval
    /\ us.softOld = 0

\* C26: a fetch to which getAccessToken() returned null has sent no feed
\* request and has ended by throwing, and the step in which connect() learns
\* that there is no token neither starts nor replaces the polling interval.
C26_NoTokenNoTransport ==
    /\ [](\A t \in StreamTasks :
            us.fetch[t].noToken
            => /\ us.fetch[t].feeds = 0
               /\ us.fetch[t].threw
               /\ us.at[t] = "idle")
    /\ [][(~us.fetch["conn"].noToken /\ us'.fetch["conn"].noToken)
            => /\ us'.pollInterval = us.pollInterval
               /\ ~us'.isConnecting]_vars

\* connect() found no token (the stored credential had expired and had no
\* refresh token): nothing was sent, no interval runs, the retry is scheduled.
C26_Witness ==
    /\ us.fetch["conn"].noToken
    /\ us.fetch["conn"].feeds = 0
    /\ ~us.pollInterval
    /\ us.reconnectTimeout = "armed"
    /\ token = NoCred /\ secret = NoCred

\* C30: a feed request that fails on the transport or with a status other than
\* 2xx, 401 and 403 leaves this.token and the stored credential as they were
\* and starts no OAuth2Client call; a forced refresh, which may clear them, is
\* awaited only by a fetch that got a 401 or 403.
C30_TransportErrorKeepsCredential ==
    /\ [](\A t \in StreamTasks : us.at[t] = "refresh" => us.fetch[t].unauth = 1)
    /\ [][\A t \in StreamTasks :
            FeedResponse(t, "failed")
            => /\ UNCHANGED <<token, secret, pc, issued>>
               /\ us'.fetch[t].forced = 0]_vars

\* A feed request failed and the credential is held and stored as before.
C30_Witness ==
    \E t \in StreamTasks :
        /\ us.at[t] = "idle"
        /\ us.fetch[t].feeds = 1 /\ us.fetch[t].threw /\ us.fetch[t].unauth = 0
        /\ token = Cred(1, TRUE, 1400) /\ secret = token

\* The last connection attempt failed and none has started since: its fetch
\* threw, or got a 401 or 403 and returned after the forced refresh.
FailedAttempt ==
    /\ us.at["conn"] = "idle"
    /\ us.fetch["conn"].threw \/ us.fetch["conn"].unauth > 0

\* C24: after a failed connection attempt, unless disconnect() has been
\* called, a reconnect is scheduled (the 5 s timer is pending, or the 1 s timer
\* that sets it), and another connection attempt follows (or disconnect() is
\* called); this holds after every failure, however many there were.
C24_RetriesUntilDisconnected ==
    /\ [](FailedAttempt /\ ~us.disconnected
            => us.reconnectTimeout = "armed" \/ us.softNew > 0)
    /\ \A b \in BOOLEAN :
            (FailedAttempt /\ ~us.disconnected /\ us.retry = b)
                ~> (us.retry # b \/ us.at["conn"] # "idle" \/ us.disconnected)

\* An attempt started by a 5 s timer failed on a response other than 2xx, 401
\* and 403, and the timer of the next retry is pending.
C24_Witness ==
    /\ FailedAttempt
    /\ ~us.disconnected
    /\ us.reconnectTimeout = "armed"
    /\ us.fetch["conn"].feeds = 1 /\ us.fetch["conn"].unauth = 0
    /\ us.retry

\* ------------------------------------------------------------- claims on the SSE variant

\* The source ended the stream of the last attempt and none has started since.
StreamEnded == us.at["conn"] = "idle" /\ us.fetch["conn"].ended

\* C23: when the source has ended the stream, unless disconnect() has been
\* called, a reconnect is scheduled (the 5 s timer is pending, or the 1 s timer
\* that sets it) and another connection attempt follows.
C23_EndOfStreamReconnects ==
    /\ [](StreamEnded /\ ~us.disconnected
            => us.reconnectTimeout = "armed" \/ us.softNew > 0)
    /\ \A b \in BOOLEAN :
            (StreamEnded /\ ~us.disconnected /\ us.retry = b)
                ~> (us.retry # b \/ us.at["conn"] # "idle" \/ us.disconnected)

\* The message a block carries: the JSON text of its data lines.
Decoded(chunk) == JSONParse(Join(DataLines(chunk)))

\* The message is a JSON object with at least one of the three usage fields.
HasUsageField(parsed) ==
    parsed.kind = "object" /\ \E k \in UsageFields : k \in DOMAIN parsed.obj

\* The bodies a 2xx response of the polling endpoint may have.
Bodies == {Join(DataLines(b)) : b \in Blocks}

\* C27: a 'usage' event is emitted only for a message that has at least one of
\* points, total_points and context_length: by parseSSE() for each block of
\* the stream, and by fetchUsageData() of the polling variant for each body.
C27_EmitOnlyUsage ==
    /\ \A i \in DOMAIN us.parsed :
            us.parsed[i].out.emitted => HasUsageField(Decoded(us.parsed[i].chunk))
    /\ \A b \in Bodies : ParseBody(b).emitted => HasUsageField(JSONParse(b))

\* The last read brought a message without any of the three fields and
\* parseSSE() reached its test of them and emitted nothing.
C27_Witness ==
    /\ us.at["conn"] = "read"
    /\ \E i \in DOMAIN us.parsed :
            /\ us.parsed[i].chunk = StatusOnly
            /\ us.parsed[i].out.path = "nofields"
            /\ ~us.parsed[i].out.emitted

\* The literal the text of a block gives for a key (the last one, if several).
Received(chunk, k) ==
    LET j == CHOOSE j \in DOMAIN chunk :
                /\ chunk[j].s = "member" /\ chunk[j].key = k
                /\ \A i \in (j + 1) .. Len(chunk) :
                        ~(chunk[i].s = "member" /\ chunk[i].key = k)
    IN  [t |-> chunk[j].t, lex |-> chunk[j].lex]

\* C28: every block whose message is a JSON object with at least one of the
\* three fields produces a 'usage' event, and the event carries each of these
\* fields with the literal received, a number as a number and a string as a
\* string.
C28_UsageMessageEmitted ==
    \A i \in DOMAIN us.parsed :
        LET e == us.parsed[i]
            msg == Decoded(e.chunk)
        IN  HasUsageField(msg)
            => /\ e.out.emitted
               /\ \A k \in UsageFields \cap DOMAIN msg.obj :
                      /\ k \in DOMAIN e.out.payload
                      /\ e.out.payload[k] = Received(e.chunk, k)

\* The data of a block is there and is not a JSON text.
Malformed(chunk) ==
    /\ ~EmptyEventData(DataLines(chunk))
    /\ Decoded(chunk).kind = "error"

\* C29: a read that completes a block with malformed data emits nothing for
\* that block, goes on to the blocks after it in the same read (one with
\* points is emitted), leaves the read loop running and schedules no
\* reconnect.
C29_DecodeErrorDropsOneMessage ==
    [][\A r \in Reads :
        LET parts == Split(us.buf \o r, 2)
            n == Len(parts) - 1
        IN  (Read(r) /\ \E i \in 1 .. n : Malformed(parts[i]))
            => /\ us'.at["conn"] = "read" /\ us'.stream = "open" /\ us'.isConnecting
               /\ us'.reconnectTimeout = us.reconnectTimeout
               /\ us'.softNew = us.softNew /\ us'.softOld = us.softOld
               /\ Len(us'.parsed) = n
               /\ \A i \in 1 .. n :
                      /\ us'.parsed[i].chunk = parts[i]
                      /\ Malformed(parts[i]) => ~us'.parsed[i].out.emitted
                      /\ "context_length" \in DOMAIN Decoded(parts[i]).obj
                             => us'.parsed[i].out.emitted]_vars

\* After a read in which a malformed block was dropped, a later read of the
\* same connection brought a message that was emitted.
C29_Witness ==
    /\ us.at["conn"] = "read"
    /\ us.dropped
    /\ \E i \in DOMAIN us.parsed : us.parsed[i].out.emitted

\* ------------------------------------------------------------- claims on the public boundary

\* C31: no call of a public method ends as a rejected promise: a login() call
\* that has returned has returned a boolean.
C31_NoRejectedPromise ==
    \A t \in Callers :
        ret[t].op = "login" /\ ret[t].done
            => ret[t].path # "rejected" /\ ret[t].val \in {0, 1}

\* ------------------------------------------------------------- claims on logout() and the calls in flight

\* C33: once a logout() that cleared the store has returned, and while no
\* login has succeeded since, no credential is held and none is stored,
\* whatever was in flight when logout() ran.
C33_LogoutStays ==
    \A t \in Callers :
        ret[t].op = "logout" /\ ret[t].done /\ ret[t].writes > 0
            => token = NoCred /\ secret = NoCred

\* C36: a handler that sent a token-exchange request sent the verifier that
\* login() generated together with the state the redirect matched, and not
\* null.
C36_VerifierOfMatchedState ==
    \A cb \in Callbacks :
        ret[cb].op = "callback" /\ ret[cb].reqs > 0
            => /\ ret[cb].verifier # NoVerifier
               /\ ret[cb].verifier = ret[cb].rstate

\* C38: while no method of the client is running and a credential is held,
\* the stored credential is the one held.
C38_StoredIsHeld == Quiet /\ token # NoCred => secret = token

\* ------------------------------------------------------------- claims on the start of polling

\* C35: the 30 s interval is started only by a connect() whose first feed
\* request got a 2xx response: not by one whose request got a 401 or 403,
\* whatever forceRefreshToken() returned.
C35_PollingOnlyAfterSuccess ==
    [][~us.pollInterval /\ us'.pollInterval
        => /\ us.at["conn"] = "feed"
           /\ us'.fetch["conn"].unauth = 0]_vars

\* ------------------------------------------------------------- claims on the persisted state

\* C34: when getAccessToken() or forceRefreshToken() clears the credential
\* while a login() call awaits its redirect, the persisted state of that
\* attempt is left as it was.
C34_StateOutlivesCredential ==
    [][\A t \in Callers :
        /\ op[t] \in {"getAccessToken", "forceRefreshToken"}
        /\ pc[t] = "clear1" /\ pc'[t] = "clear2"
        /\ \E u \in Callers : op[u] = "login" /\ pc[u] = "wait"
        => gstate' = gstate]_vars

\* ------------------------------------------------------------- claims on disconnect() during an attempt

\* C32: when disconnect() ran while connect() was in flight and connect() has
\* not been called since, the steps in which that attempt goes on and ends
\* start no interval, set no 5 s or 1 s timer, and take no reader.
C32_DisconnectCancelsAttempt ==
    [][(/\ us.cut /\ us.disconnected
        /\ us'.at["conn"] # us.at["conn"])
        => /\ IF us.transport = "sse" THEN us'.reader # "set"
                                      ELSE ~us'.pollInterval
           /\ us'.reconnectTimeout = "armed" => us.reconnectTimeout = "armed"
           /\ us'.softNew + us'.softOld <= us.softNew + us.softOld]_vars

\* ------------------------------------------------------------- claims on the timers

\* C37: at most one 30 s interval is running and at most one 5 s timer is
\* pending, and a running interval or pending timer is the one its field
\* refers to.
C37_OneTimerEach ==
    /\ us.liveIntervals <= 1 /\ us.liveTimeouts <= 1
    /\ us.liveIntervals = 1 => us.pollInterval
    /\ us.liveTimeouts = 1 => us.reconnectTimeout = "armed"

\* While the interval was running, a connect() got a 401 or 403 and no token
\* from forceRefreshToken(): scheduleReconnect() ran three times in a row, and
\* one 5 s timer is pending beside the one interval.
C37_Witness ==
    /\ us.fetch["conn"].forced = 1 /\ ~us.fetch["conn"].newToken
    /\ us.fetch["conn"].threw /\ us.at["conn"] = "idle"
    /\ us.pollInterval /\ us.liveIntervals = 1
    /\ us.reconnectTimeout = "armed" /\ us.liveTimeouts = 1

\* ------------------------------------------------------------- claims on framing

\* C39: at every moment of a connection, the blocks parsed so far are the
\* blank-line-terminated blocks of the content delivered so far, each once and
\* in order, with what parseSSE() does with each, and `buf` holds the block not
\* yet terminated: wherever the reads cut the content.
C39_FramingIgnoresChunking ==
    us.at["conn"] = "read"
        => LET whole == Split(us.recv, 2)
               n == Len(whole) - 1
           IN  /\ Len(us.events) = n
               /\ \A i \in 1 .. n :
                      /\ us.events[i].chunk = whole[i]
                      /\ us.events[i].out = ParseSSE(whole[i])
               /\ us.buf = whole[n + 1]

\* A read ended between the two line feeds that terminate a block, after an
\* earlier block was parsed and emitted: the block is held in `buf` with one
\* line feed, and the source has more to deliver.
C39_Witness ==
    /\ us.at["conn"] = "read"
    /\ Len(us.events) = 1 /\ us.events[1].out.emitted
    /\ Len(us.buf) > 1 /\ us.buf[Len(us.buf)] = NL
    /\ us.wire # <<>> /\ us.wire[1] = NL

====
